---- MODULE Spec2Model ----
(***************************************************************************)
(* The discussion-thread API of fastapi-demo-project: the users and        *)
(* discussion_threads tables, the image directory, and the update and      *)
(* delete requests that are between their SELECT and their COMMIT.         *)
(*                                                                         *)
(* Every handler is an operator from its inputs and the current state to   *)
(* an outcome: the HTTP status, the detail, the body, and the state it     *)
(* leaves.  The action of a handler applies that outcome, so a request     *)
(* that is rejected, and a request that only reads, leaves the state as    *)
(* it is.  Strings the code inspects (titles, search strings, content      *)
(* types, file names) are sequences of one-character strings.              *)
(*                                                                         *)
(* Time: datetime.now() is clock.  A commit that stores a timestamp read   *)
(* from the clock ends strictly later than that reading, so it leaves the  *)
(* clock one tick further.  User.created_at is written once by its default *)
(* and read by no handler; the users rows are modelled without it.         *)
(***************************************************************************)
EXTENDS Bags, FiniteSets, Integers, Sequences, TLC

VARIABLES users, threads, next_id, files, clock, inflight, deleted

vars == <<users, threads, next_id, files, clock, inflight, deleted>>

\* ------------------------------------------------------------------ bounds
MaxClock == 3
MaxInFlight == 2
MaxFiles == 2

\* ------------------------------------------------------------------ inputs
None == <<"None">>

Usernames == {"alice", "bob"}
Passwords == {"pw1", "pw2"}
Salts == {"s1", "s2"}
Titles == {<<"a", "b">>, <<"A">>}
Contents == {"C1", "C2"}
LongSearch == [i \in 1..21 |-> "a"]
SearchTitles ==
    {None, <<>>, <<"a">>, <<"a", "b">>, <<"b", "a">>, <<"_">>, <<"%">>, LongSearch}
ThreadIds == 1..MaxClock

png == <<"i", "m", "a", "g", "e", "/", "p", "n", "g">>
plain == <<"t", "e", "x", "t", "/", "p", "l", "a", "i", "n">>
NoUpload == [content_type |-> <<"absent">>, filename |-> <<"absent">>]
UploadFiles ==
    {[content_type |-> png, filename |-> <<"p", ".", "p", "n", "g">>],
     [content_type |-> plain, filename |-> <<"p", ".", "p", "n", "g">>],
     [content_type |-> png, filename |-> <<"p", "n", "g">>],
     [content_type |-> png, filename |-> <<"p", ".">>],
     [content_type |-> None, filename |-> <<"x", ".", "s", "h">>]}
IoOutcomes == {"ok", "open", "copy"}

\* -------------------------------------------------------------------- state
\* deleted: the ids whose DELETE has been committed (history, read by no handler)
St == [users |-> users, threads |-> threads, next_id |-> next_id, files |-> files,
       clock |-> clock, inflight |-> inflight, deleted |-> deleted]

\* within: FALSE when the outcome lies beyond the bounds of the model
Out(code, detail, body, st, within) ==
    [code |-> code, detail |-> detail, body |-> body, st |-> st, within |-> within]

Raise(code, detail) == Out(code, detail, {}, St, TRUE)

Apply(o) ==
    /\ o.within
    /\ Cardinality(o.st.files) <= MaxFiles
    /\ users' = o.st.users
    /\ threads' = o.st.threads
    /\ next_id' = o.st.next_id
    /\ files' = o.st.files
    /\ clock' = o.st.clock
    /\ inflight' = o.st.inflight
    /\ deleted' = o.st.deleted

Init ==
    /\ users = {}
    /\ threads = {}
    /\ next_id = 1
    /\ files = {}
    /\ clock = 1
    /\ inflight = EmptyBag
    /\ deleted = {}

\* ------------------------------------------------------------- app/auth.py
SECRET_KEY == "secret"
ACCESS_TOKEN_EXPIRE_DAYS == 2

Digest(salt, password) == <<"pbkdf2", salt, password>>

hash_password(password, salt) == [salt |-> salt, digest |-> Digest(salt, password)]

verify_password(password, hashed) == Digest(hashed.salt, password) = hashed.digest

Sign(key, sub, exp) == <<"HS256", key, sub, exp>>

create_access_token(sub, now, expires_delta) ==
    [sub |-> sub, exp |-> now + expires_delta,
     sig |-> Sign(SECRET_KEY, sub, now + expires_delta)]

NoToken == [sub |-> "", exp |-> 0, sig |-> <<"none">>]

NoUser == [id |-> 0, username |-> "", hashed_password |-> [salt |-> "", digest |-> <<>>]]

UserByName(username) ==
    IF \E u \in users : u.username = username
    THEN CHOOSE u \in users : u.username = username
    ELSE NoUser

get_current_user(token) ==
    IF token = NoToken THEN NoUser
    ELSE IF token.sig # Sign(SECRET_KEY, token.sub, token.exp) THEN NoUser
    ELSE IF token.exp <= clock THEN NoUser
    ELSE UserByName(token.sub)

\* ------------------------------------------------- app/main.py: create_user
no_unique_index(username) == TRUE

\* Column(String(50), unique=True, ...): the INSERT is refused when a row
\* with this username is committed
UniqueUsername(username) == \A u \in users : u.username # username

create_user(username, password, confirm_password, salt, dbfail) ==
    LET new_user == [id |-> Cardinality(users) + 1,
                     username |-> username,
                     hashed_password |-> hash_password(password, salt)]
    IN  IF password # confirm_password
        THEN Raise(422, "Two passwords are not the same")
        ELSE IF dbfail THEN Raise(422, "OperationalError")
        ELSE IF ~UniqueUsername(username) THEN Raise(422, "IntegrityError")
        ELSE Out(200, "New user created", {},
                 [St EXCEPT !.users = users \cup {new_user}], TRUE)

\* ------------------------------------- app/main.py: login_for_access_token
login_without_verify(username, password) ==
    LET user == UserByName(username)
    IN  IF user = NoUser
        THEN Out(401, "Incorrect username or password", NoToken, St, TRUE)
        ELSE Out(200, "bearer",
                 create_access_token(user.username, clock, ACCESS_TOKEN_EXPIRE_DAYS),
                 St, TRUE)

login_for_access_token(username, password) ==
    LET user == UserByName(username)
    IN  IF user = NoUser
        THEN Out(401, "Incorrect username or password", NoToken, St, TRUE)
        ELSE IF ~verify_password(password, user.hashed_password)
        THEN Out(401, "Incorrect username or password", NoToken, St, TRUE)
        ELSE Out(200, "bearer",
                 create_access_token(user.username, clock, ACCESS_TOKEN_EXPIRE_DAYS),
                 St, TRUE)

\* The Authorization headers a client can send: none, a token signed with a
\* guessed key, and the tokens login answers for a registered user: the one
\* of a login now and the one of the earliest login there can have been
\* (every other one has an exp between these two).
ForgedTokens ==
    {[sub |-> "alice", exp |-> MaxClock + ACCESS_TOKEN_EXPIRE_DAYS,
      sig |-> Sign("guess", "alice", MaxClock + ACCESS_TOKEN_EXPIRE_DAYS)]}

IssuedTokens ==
    {create_access_token(u.username, t, ACCESS_TOKEN_EXPIRE_DAYS) :
        u \in users, t \in {1, clock}}

Bearers == {NoToken} \cup ForgedTokens \cup IssuedTokens

\* ------------------------------- app/routers/discussion_threads.py: helpers
NoThread == [id |-> 0, user_id |-> 0, title |-> <<>>, content |-> "", image_path |-> None,
             created_at |-> 0, updated_at |-> 0]

Truthy(s) == s # None /\ s # <<>>

StartsWith(s, prefix) ==
    Len(s) >= Len(prefix) /\ SubSeq(s, 1, Len(prefix)) = prefix

\* re.match("image/.+", content_type) is not None
re_match_image(content_type) ==
    /\ StartsWith(content_type, <<"i", "m", "a", "g", "e", "/">>)
    /\ Len(content_type) > 6

\* "no": no upload; "raise": HTTPException 422; "yes": goes on to save_image
is_image(image) ==
    IF image = NoUpload THEN "no"
    ELSE IF Truthy(image.content_type) /\ ~re_match_image(image.content_type) THEN "raise"
    ELSE "yes"

\* re.search(r"\..+$", filename): from the first dot that has a character after it
file_extension_search(filename) ==
    IF Truthy(filename) /\ \E i \in 1..(Len(filename) - 1) : filename[i] = "."
    THEN LET i == CHOOSE j \in 1..(Len(filename) - 1) :
                     /\ filename[j] = "."
                     /\ \A k \in 1..(j - 1) : filename[k] # "."
         IN  SubSeq(filename, i, Len(filename))
    ELSE None

\* io: "ok", "open" (open() raises IOError), "copy" (copyfileobj raises IOError)
save_image(image, username, title, io) ==
    LET ext == file_extension_search(image.filename)
        image_path == <<clock, username, title, ext>>
    IN  IF ext = None
        THEN [raised |-> TRUE, detail |-> "Uploaded file is not an image",
              image_path |-> None, files |-> files]
        ELSE IF io = "open"
        THEN [raised |-> TRUE, detail |-> "IOError", image_path |-> None, files |-> files]
        ELSE IF io = "copy"
        THEN [raised |-> TRUE, detail |-> "IOError", image_path |-> None,
              files |-> files \cup {image_path}]
        ELSE [raised |-> FALSE, detail |-> "", image_path |-> image_path,
              files |-> files \cup {image_path}]

get_discussion_thread(discussion_thread_id) ==
    IF \E t \in threads : t.id = discussion_thread_id
    THEN CHOOSE t \in threads : t.id = discussion_thread_id
    ELSE NoThread

\* title LIKE pattern, with the wildcards % and _
RECURSIVE Like(_, _)
Like(s, pattern) ==
    IF pattern = <<>> THEN s = <<>>
    ELSE IF Head(pattern) = "%"
    THEN Like(s, Tail(pattern)) \/ (s # <<>> /\ Like(Tail(s), pattern))
    ELSE /\ s # <<>>
         /\ (Head(pattern) = "_" \/ Head(pattern) = Head(s))
         /\ Like(Tail(s), Tail(pattern))

\* col(DiscussionThread.title).contains(s): title LIKE '%' || s || '%'
contains(title, search_title) == Like(title, <<"%">> \o search_title \o <<"%">>)

max_length == 20

never_forbidden(discussion_thread, current_user) == FALSE

\* if discussion_thread.user_id != current_user.id: raise 401
not_your_discussion_thread(discussion_thread, current_user) ==
    discussion_thread.user_id # current_user.id

content_only(discussion_thread, content) ==
    [discussion_thread EXCEPT !.content = content]

\* discussion_thread.content = content; discussion_thread.updated_at = now
assign_content(discussion_thread, content) ==
    [discussion_thread EXCEPT !.content = content, !.updated_at = clock]

delete_nothing(discussion_thread_id) == threads

\* DELETE FROM discussion_threads WHERE id = :id
delete_row(discussion_thread_id) == {t \in threads : t.id # discussion_thread_id}

\* ------------------------------------------------- list_discussion_threads
list_requires_user(token, search_title) ==
    IF get_current_user(token) = NoUser
    THEN Raise(401, "Could not validate credentials")
    ELSE Out(200, "", threads, St, TRUE)

list_discussion_threads(token, search_title) ==
    IF search_title = None
    THEN Out(200, "", threads, St, TRUE)
    ELSE IF Len(search_title) > max_length
    THEN Raise(422, "string_too_long")
    ELSE Out(200, "", {t \in threads : contains(t.title, search_title)}, St, TRUE)

\* ------------------------------------------------- read_discussion_thread
read_discussion_thread(token, discussion_thread_id) ==
    LET discussion_thread == get_discussion_thread(discussion_thread_id)
    IN  IF discussion_thread = NoThread
        THEN Raise(404, "Discussion thread not found")
        ELSE Out(200, "", {discussion_thread}, St, TRUE)

\* ------------------------------------------ app/main.py: my_discussion_threads
my_discussion_threads(token) ==
    LET current_user == get_current_user(token)
    IN  IF current_user = NoUser
        THEN Raise(401, "Could not validate credentials")
        ELSE Out(200, "", {t \in threads : t.user_id = current_user.id}, St, TRUE)

\* ------------------------------------------------ create_discussion_thread
create_discussion_thread(token, title, content, image, io, dbfail) ==
    LET current_user == get_current_user(token)
        saved == save_image(image, current_user.username, title, io)
        image_path == IF is_image(image) = "yes" THEN saved.image_path ELSE None
        after_save == IF is_image(image) = "yes" THEN saved.files ELSE files
        new_discussion_thread ==
            [id |-> next_id, user_id |-> current_user.id, title |-> title,
             content |-> content, image_path |-> image_path,
             created_at |-> clock, updated_at |-> clock]
    IN  IF current_user = NoUser
        THEN Raise(401, "Could not validate credentials")
        ELSE IF is_image(image) = "raise"
        THEN Raise(422, "Uploaded file is not an image")
        ELSE IF is_image(image) = "yes" /\ saved.raised
        THEN Out(422, saved.detail, {}, [St EXCEPT !.files = saved.files], TRUE)
        ELSE IF dbfail
        THEN Out(422, "OperationalError", {}, [St EXCEPT !.files = after_save], TRUE)
        ELSE Out(200, "", {new_discussion_thread},
                 [St EXCEPT !.files = after_save,
                            !.threads = threads \cup {new_discussion_thread},
                            !.next_id = next_id + 1,
                            !.clock = clock + 1],
                 clock < MaxClock)

\* ------------------------------------------------ update_discussion_thread
update_owner_first(token, discussion_thread_id, content) ==
    LET current_user == get_current_user(token)
        discussion_thread == get_discussion_thread(discussion_thread_id)
    IN  IF current_user = NoUser
        THEN Raise(401, "Could not validate credentials")
        ELSE IF not_your_discussion_thread(discussion_thread, current_user)
        THEN Raise(401, "This is not your discussion thread")
        ELSE IF discussion_thread = NoThread
        THEN Raise(404, "Discussion thread not found")
        ELSE Out(0, "pending", {},
                 [St EXCEPT !.inflight = inflight (+) SetToBag({
                      [op |-> "update", current_user_id |-> current_user.id,
                       discussion_thread |-> [discussion_thread EXCEPT
                                                !.content = content,
                                                !.updated_at = clock]]})],
                 BagCardinality(inflight) < MaxInFlight)

\* up to "await session.commit()": the two dependencies, the ownership check
\* and the assignments to the fetched object
update_discussion_thread(token, discussion_thread_id, content) ==
    LET current_user == get_current_user(token)
        discussion_thread == get_discussion_thread(discussion_thread_id)
    IN  IF current_user = NoUser
        THEN Raise(401, "Could not validate credentials")
        ELSE IF discussion_thread = NoThread
        THEN Raise(404, "Discussion thread not found")
        ELSE IF not_your_discussion_thread(discussion_thread, current_user)
        THEN Raise(401, "This is not your discussion thread")
        ELSE Out(0, "pending", {},
                 [St EXCEPT !.inflight = inflight (+) SetToBag({
                      [op |-> "update", current_user_id |-> current_user.id,
                       discussion_thread |-> assign_content(discussion_thread, content)]})],
                 BagCardinality(inflight) < MaxInFlight)

update_touches_created_at(r, dbfail) ==
    LET done == [St EXCEPT !.inflight = inflight (-) SetToBag({r})]
    IN  IF dbfail
        THEN Out(422, "OperationalError", {}, done, TRUE)
        ELSE IF get_discussion_thread(r.discussion_thread.id) = NoThread
        THEN Out(422, "StaleDataError", {}, done, TRUE)
        ELSE Out(200, "", {r.discussion_thread},
                 [done EXCEPT
                    !.threads = {IF t.id = r.discussion_thread.id
                                 THEN [t EXCEPT
                                         !.content = r.discussion_thread.content,
                                         !.updated_at = r.discussion_thread.updated_at,
                                         !.created_at = r.discussion_thread.updated_at]
                                 ELSE t : t \in threads},
                    !.clock = clock + 1],
                 clock < MaxClock)

update_commit_unchecked(r, dbfail) ==
    LET done == [St EXCEPT !.inflight = inflight (-) SetToBag({r})]
    IN  IF dbfail
        THEN Out(422, "OperationalError", {}, done, TRUE)
        ELSE Out(200, "", {r.discussion_thread},
                 [done EXCEPT
                    !.threads = {IF t.id = r.discussion_thread.id
                                 THEN [t EXCEPT
                                         !.content = r.discussion_thread.content,
                                         !.updated_at = r.discussion_thread.updated_at]
                                 ELSE t : t \in threads},
                    !.clock = clock + 1],
                 clock < MaxClock)

\* "await session.commit()" of an update: UPDATE ... WHERE id = :id, COMMIT;
\* an UPDATE that matches no row raises StaleDataError
update_commit(r, dbfail) ==
    LET done == [St EXCEPT !.inflight = inflight (-) SetToBag({r})]
    IN  IF dbfail
        THEN Out(422, "OperationalError", {}, done, TRUE)
        ELSE IF get_discussion_thread(r.discussion_thread.id) = NoThread
        THEN Out(422, "StaleDataError", {}, done, TRUE)
        ELSE Out(200, "", {r.discussion_thread},
                 [done EXCEPT
                    !.threads = {IF t.id = r.discussion_thread.id
                                 THEN [t EXCEPT
                                         !.content = r.discussion_thread.content,
                                         !.updated_at = r.discussion_thread.updated_at]
                                 ELSE t : t \in threads},
                    !.clock = clock + 1],
                 clock < MaxClock)

\* ------------------------------------------------ delete_discussion_thread
delete_discussion_thread(token, discussion_thread_id) ==
    LET current_user == get_current_user(token)
        discussion_thread == get_discussion_thread(discussion_thread_id)
    IN  IF current_user = NoUser
        THEN Raise(401, "Could not validate credentials")
        ELSE IF discussion_thread = NoThread
        THEN Raise(404, "Discussion thread not found")
        ELSE IF not_your_discussion_thread(discussion_thread, current_user)
        THEN Raise(401, "This is not your discussion thread")
        ELSE Out(0, "pending", {},
                 [St EXCEPT !.inflight = inflight (+) SetToBag({
                      [op |-> "delete", current_user_id |-> current_user.id,
                       discussion_thread |-> discussion_thread]})],
                 BagCardinality(inflight) < MaxInFlight)

\* "await session.delete(...)", "await session.commit()": DELETE ... WHERE
\* id = :id, COMMIT; a DELETE that matches no row is only warned about
delete_commit(r, dbfail) ==
    LET done == [St EXCEPT !.inflight = inflight (-) SetToBag({r})]
    IN  IF dbfail
        THEN Out(422, "OperationalError", {}, done, TRUE)
        ELSE Out(200, "Discussion thread deleted", {},
                 [done EXCEPT !.threads = delete_row(r.discussion_thread.id),
                              !.deleted = deleted \cup {r.discussion_thread.id}],
                 TRUE)

\* ----------------------------------------------------------------- requests
InFlight(op) == {r \in BagToSet(inflight) : r.op = op}

CreateUser(passwords, salts, dbfails) ==
    \E u \in Usernames, p \in passwords, c \in passwords, s \in salts, f \in dbfails :
        Apply(create_user(u, p, c, s, f))

Login ==
    \E u \in Usernames, p \in Passwords : Apply(login_for_access_token(u, p))

ListThreads(searches) ==
    \E k \in Bearers, s \in searches : Apply(list_discussion_threads(k, s))

ReadThread ==
    \E k \in Bearers, i \in ThreadIds : Apply(read_discussion_thread(k, i))

MyThreads ==
    \E k \in Bearers : Apply(my_discussion_threads(k))

CreateThread(titles, contents, images, ios) ==
    \E k \in Bearers, t \in titles, c \in contents, im \in images, io \in ios,
       f \in BOOLEAN :
        Apply(create_discussion_thread(k, t, c, im, io, f))

UpdateThread(contents) ==
    \E k \in Bearers, i \in ThreadIds, c \in contents :
        Apply(update_discussion_thread(k, i, c))

UpdateCommit ==
    \E r \in InFlight("update"), f \in BOOLEAN : Apply(update_commit(r, f))

DeleteThread ==
    \E k \in Bearers, i \in ThreadIds : Apply(delete_discussion_thread(k, i))

DeleteCommit ==
    \E r \in InFlight("delete"), f \in BOOLEAN : Apply(delete_commit(r, f))

\* The life cycle of threads and the requests in flight: every endpoint,
\* with registrations of one password and threads of one title and no upload.
Next ==
    \/ CreateUser({"pw1"}, {"s1"}, {FALSE})
    \/ Login
    \/ ListThreads({None, <<"a">>})
    \/ ReadThread
    \/ MyThreads
    \/ CreateThread({<<"a", "b">>}, {"C1"}, {NoUpload}, {"ok"})
    \/ UpdateThread({"C2"})
    \/ UpdateCommit
    \/ DeleteThread
    \/ DeleteCommit

Spec == Init /\ [][Next]_vars

\* Registration and login with every password, salt and database fault.
NextAuth ==
    \/ CreateUser(Passwords, Salts, BOOLEAN)
    \/ Login
    \/ MyThreads
    \/ CreateThread({<<"a", "b">>}, {"C1"}, {NoUpload}, {"ok"})

SpecAuth == Init /\ [][NextAuth]_vars

\* Creation with every upload and every outcome of the file write.
NextUpload ==
    \/ CreateUser({"pw1"}, {"s1"}, {FALSE})
    \/ CreateThread({<<"a", "b">>}, {"C1"}, UploadFiles \cup {NoUpload}, IoOutcomes)
    \/ DeleteThread
    \/ DeleteCommit

SpecUpload == Init /\ [][NextUpload]_vars

\* Listing with every title and every search string.
NextList ==
    \/ CreateUser({"pw1"}, {"s1"}, {FALSE})
    \/ CreateThread(Titles, Contents, {NoUpload}, {"ok"})
    \/ ListThreads(SearchTitles)
    \/ DeleteThread
    \/ DeleteCommit

SpecList == Init /\ [][NextList]_vars

\* The requests that write: registration, and create, update and delete
\* with their commits.
NextFrame ==
    \/ CreateUser({"pw1"}, {"s1"}, {FALSE})
    \/ CreateThread({<<"a", "b">>}, {"C1"}, {NoUpload}, {"ok"})
    \/ UpdateThread({"C2"})
    \/ UpdateCommit
    \/ DeleteThread
    \/ DeleteCommit

SpecFrame == Init /\ [][NextFrame]_vars

\* ------------------------------------------------------------------- claims
Unchanged(o) == o.st = St

Rejected(o, code) == o.code = code /\ Unchanged(o)

Images == UploadFiles \cup {NoUpload}

\* the title contains the search string, character for character
Substring(s, title) ==
    \E i \in 0..(Len(title) - Len(s)) : SubSeq(title, i + 1, i + Len(s)) = s

\* C1: whatever happened before, an update or a delete of a stored thread that
\* an authenticated user other than its owner requests is answered 401 "This is
\* not your discussion thread" and leaves every row, file and pending request
\* as it was.
C1_NonOwnerIsForbidden ==
    \A k \in Bearers, t \in threads, c \in Contents :
        LET v == get_current_user(k)
        IN  (v # NoUser /\ v.id # t.user_id) =>
                /\ Rejected(update_discussion_thread(k, t.id, c), 401)
                /\ Rejected(delete_discussion_thread(k, t.id), 401)
                /\ update_discussion_thread(k, t.id, c).detail =
                       "This is not your discussion thread"
                /\ delete_discussion_thread(k, t.id).detail =
                       "This is not your discussion thread"

C1_Witness ==
    \E k \in Bearers, t \in threads :
        /\ get_current_user(k) # NoUser
        /\ get_current_user(k).id # t.user_id
        /\ update_discussion_thread(k, t.id, "C2").code = 401
        /\ delete_discussion_thread(k, t.id).code = 401

\* C2: an id whose delete has been committed has no row in any later state, is
\* never given to a new thread, and every later read of it, and every later
\* update or delete of it by an authenticated user, is answered 404.
C2_DeletedIsTerminal ==
    /\ next_id \notin deleted
    /\ \A t \in threads : t.id < next_id
    /\ \A i \in deleted :
        /\ get_discussion_thread(i) = NoThread
        /\ \A k \in Bearers :
            /\ Rejected(read_discussion_thread(k, i), 404)
            /\ get_current_user(k) # NoUser =>
                   /\ Rejected(delete_discussion_thread(k, i), 404)
                   /\ \A c \in Contents :
                          Rejected(update_discussion_thread(k, i, c), 404)

C2_Witness ==
    \E i \in deleted, k \in Bearers :
        /\ get_current_user(k) # NoUser
        /\ read_discussion_thread(k, i).code = 404
        /\ update_discussion_thread(k, i, "C2").code = 404
        /\ threads # {}

\* C3: a request whose Authorization header resolves to no user (none, forged,
\* expired) is answered 401 by create, update, delete and the caller's own
\* listing and changes nothing; every request between its SELECT and its
\* COMMIT belongs to a stored user; list and read answer 200 with no token.
C3_AuthenticationIsRequired ==
    /\ \A k \in Bearers :
        get_current_user(k) = NoUser =>
            /\ Rejected(my_discussion_threads(k), 401)
            /\ \A i \in ThreadIds :
                /\ Rejected(delete_discussion_thread(k, i), 401)
                /\ \A c \in Contents : Rejected(update_discussion_thread(k, i, c), 401)
            /\ \A t \in Titles, c \in Contents, im \in Images, io \in IoOutcomes,
                  f \in BOOLEAN :
                   Rejected(create_discussion_thread(k, t, c, im, io, f), 401)
    /\ \A r \in BagToSet(inflight) : \E u \in users : u.id = r.current_user_id
    /\ \A s \in SearchTitles \ {LongSearch} :
        Rejected(list_discussion_threads(NoToken, s), 200)
    /\ list_discussion_threads(NoToken, None).body = threads
    /\ \A t \in threads :
        /\ Rejected(read_discussion_thread(NoToken, t.id), 200)
        /\ read_discussion_thread(NoToken, t.id).body = {t}

C3_Witness ==
    /\ threads # {}
    /\ inflight # EmptyBag
    /\ \E k \in IssuedTokens :
        /\ get_current_user(k) = NoUser
        /\ \E t \in threads : delete_discussion_thread(k, t.id).code = 401
    /\ list_discussion_threads(NoToken, None).code = 200

\* C4: no two users rows have the same username; a registration of a stored
\* username is answered 422 and leaves the users table as it was; a
\* registration of a username that is not stored, with matching passwords and
\* no database fault, is answered 200 and adds exactly its row.
C4_UsernameIsUnique ==
    /\ \A u1 \in users, u2 \in users : u1.username = u2.username => u1 = u2
    /\ \A u \in Usernames, p \in Passwords, c \in Passwords, s \in Salts, f \in BOOLEAN :
        LET o == create_user(u, p, c, s, f)
        IN  /\ (\E r \in users : r.username = u) => Rejected(o, 422)
            /\ ((\A r \in users : r.username # u) /\ p = c /\ ~f) =>
                   /\ o.code = 200
                   /\ \E new \in o.st.users :
                        /\ o.st.users = users \cup {new}
                        /\ new \notin users
                        /\ new.username = u
                        /\ verify_password(p, new.hashed_password)
                   /\ [o.st EXCEPT !.users = users] = St

C4_Witness ==
    /\ Cardinality(users) = 2
    /\ \E r \in users :
        /\ create_user(r.username, "pw2", "pw2", "s2", FALSE).code = 422
        /\ create_user(r.username, "pw2", "pw2", "s2", FALSE).detail = "IntegrityError"

\* C5 (as claimed): a create that is not answered 200 stores no thread, and in
\* every reachable state each stored image file is the image_path of a stored
\* thread.
C5_AllOrNothing ==
    /\ \A k \in Bearers, t \in Titles, c \in Contents, im \in Images, io \in IoOutcomes,
          f \in BOOLEAN :
           LET o == create_discussion_thread(k, t, c, im, io, f)
           IN  o.code # 200 => o.st.threads = threads
    /\ \A path \in files : \E t \in threads : t.image_path = path

\* C6 (as claimed): list with a search string of at most max_length characters
\* answers 200 with exactly the stored threads whose title contains the string,
\* and with every stored thread when there is no search string.
C6_ListIsSubstringMatch ==
    \A k \in Bearers, s \in SearchTitles \ {LongSearch} :
        LET o == list_discussion_threads(k, s)
        IN  /\ Rejected(o, 200)
            /\ o.body = IF s = None THEN threads
                        ELSE {t \in threads : Substring(s, t.title)}

\* C7: login answers 200 with token_type "bearer" and a token whose subject is
\* the stored username, and which resolves to that user, exactly when a users
\* row has the submitted username and the submitted password verifies against
\* its hash; otherwise it answers 401 with no token; it never changes a row.
C7_LoginIssuesTokenIffVerified ==
    \A u \in Usernames, p \in Passwords :
        LET o == login_for_access_token(u, p)
            verified == \E r \in users :
                            r.username = u /\ verify_password(p, r.hashed_password)
        IN  /\ Unchanged(o)
            /\ verified =>
                   /\ o.code = 200
                   /\ o.detail = "bearer"
                   /\ o.body.sub = u
                   /\ get_current_user(o.body) # NoUser
                   /\ get_current_user(o.body).username = u
            /\ ~verified => (o.code = 401 /\ o.body = NoToken)

C7_Witness ==
    \E r \in users, p \in Passwords, q \in Passwords :
        /\ login_for_access_token(r.username, p).code = 200
        /\ login_for_access_token(r.username, q).code = 401
        /\ \E u \in Usernames : \A x \in users : x.username # u

C9_ExistenceBeforeOwnership ==
    /\ \A k \in Bearers, i \in ThreadIds, c \in Contents :
        LET v == get_current_user(k)
            t == get_discussion_thread(i)
            u == update_discussion_thread(k, i, c)
            d == delete_discussion_thread(k, i)
        IN  v # NoUser =>
                /\ t = NoThread => (Rejected(u, 404) /\ Rejected(d, 404))
                /\ (t # NoThread /\ t.user_id # v.id) =>
                       (Rejected(u, 401) /\ Rejected(d, 401))
                /\ (t # NoThread /\ t.user_id = v.id) =>
                       /\ u.code = 0 /\ d.code = 0
                       /\ [u.st EXCEPT !.inflight = inflight] = St
                       /\ [d.st EXCEPT !.inflight = inflight] = St
    /\ \A r \in BagToSet(inflight) :
        /\ r.current_user_id = r.discussion_thread.user_id
        /\ r.discussion_thread.id \in 1..(next_id - 1)

C9_Witness ==
    /\ inflight # EmptyBag
    /\ \E k \in Bearers, t \in threads :
        /\ get_current_user(k) # NoUser
        /\ get_current_user(k).id # t.user_id
        /\ update_discussion_thread(k, next_id, "C2").code = 404
        /\ delete_discussion_thread(k, next_id).code = 404
        /\ delete_discussion_thread(k, t.id).code = 401

\* C10 (as claimed): a create by an authenticated user with an upload whose
\* content type is not image/*, or whose file name has no extension, is
\* answered 422 and writes nothing; a thread is stored with an image_path only
\* for an upload with an image/* content type and a file name extension.
NotImageByContentType(image) ==
    ~(Truthy(image.content_type) /\ re_match_image(image.content_type))

C10_OnlyImagesAreStored ==
    \A k \in Bearers, t \in Titles, c \in Contents, im \in UploadFiles, io \in IoOutcomes,
       f \in BOOLEAN :
        LET o == create_discussion_thread(k, t, c, im, io, f)
        IN  get_current_user(k) # NoUser =>
                /\ (NotImageByContentType(im) \/ file_extension_search(im.filename) = None)
                       => Rejected(o, 422)
                /\ (o.code = 200 /\ \E new \in o.body : new.image_path # None)
                       => /\ ~NotImageByContentType(im)
                          /\ file_extension_search(im.filename) # None

\* C11: in every reachable state each stored thread's user_id is the id of a
\* stored user; a create that is answered 200 stores one new row whose user_id
\* is the id of the user its token resolved to; the commit of an update leaves
\* users and files alone and changes, of the row it names, only content and
\* updated_at; and no step of any request changes the id, user_id, title,
\* created_at or image_path of a row that stays stored, or removes a user.
OwnerIsStored ==
    \A t \in threads : \E u \in users : u.id = t.user_id

CreatedByCaller ==
    \A k \in Bearers, t \in Titles, c \in Contents, f \in BOOLEAN :
        LET o == create_discussion_thread(k, t, c, NoUpload, "ok", f)
        IN  o.code = 200 =>
                \E new \in o.body :
                    /\ o.st.threads = threads \cup {new}
                    /\ \A old \in threads : old.id # new.id
                    /\ new.user_id = get_current_user(k).id
                    /\ new.title = t
                    /\ new.created_at = clock

SameButContentAndTime(old, new) ==
    /\ new.id = old.id
    /\ new.user_id = old.user_id
    /\ new.title = old.title
    /\ new.created_at = old.created_at
    /\ new.image_path = old.image_path

UpdateWritesContentAndTime ==
    \A r \in InFlight("update"), f \in BOOLEAN :
        LET o == update_commit(r, f)
        IN  /\ o.st.users = users
            /\ o.st.files = files
            /\ o.st.next_id = next_id
            /\ {t.id : t \in o.st.threads} = {t.id : t \in threads}
            /\ \A old \in threads, new \in o.st.threads :
                   new.id = old.id =>
                       /\ SameButContentAndTime(old, new)
                       /\ new.id # r.discussion_thread.id => new = old

FrameStep ==
    /\ users \subseteq users'
    /\ \A old \in threads, new \in threads' :
           new.id = old.id => SameButContentAndTime(old, new)

C11_OwnerAndFrame ==
    /\ [](OwnerIsStored /\ CreatedByCaller /\ UpdateWritesContentAndTime)
    /\ [][FrameStep]_vars

C11_Witness ==
    /\ Cardinality(users) = 2
    /\ \E t \in threads :
        /\ t.user_id = 2
        /\ t.updated_at > t.created_at
        /\ t.content # "C1"
        /\ t.title = <<"a", "b">>

\* C12: when an update and a delete of the same thread have both fetched the
\* row and passed the ownership check, the row is absent once the delete has
\* committed, whichever commits first: the commit of the delete removes the row
\* whether or not the update has committed, and the commit of an update whose
\* row has been deleted is answered 422, stores no row and returns no thread.
C12_UpdateAfterDeleteIsRefused ==
    /\ \A d \in InFlight("delete") :
        LET o == delete_commit(d, FALSE)
        IN  /\ o.code = 200
            /\ \A t \in o.st.threads : t.id # d.discussion_thread.id
            /\ \A u \in InFlight("update") :
                   u.discussion_thread.id = d.discussion_thread.id =>
                       /\ BagIn(u, o.st.inflight)
                       /\ \A f \in BOOLEAN :
                              update_commit(u, f).code = 200 =>
                                  BagIn(d, update_commit(u, f).st.inflight)
    /\ \A u \in InFlight("update"), f \in BOOLEAN :
        LET o == update_commit(u, f)
        IN  u.discussion_thread.id \in deleted =>
                /\ get_discussion_thread(u.discussion_thread.id) = NoThread
                /\ o.code = 422
                /\ o.body = {}
                /\ o.st.threads = threads
                /\ \A t \in o.st.threads : t.id # u.discussion_thread.id

C12_Witness ==
    \E u \in InFlight("update") :
        /\ u.discussion_thread.id \in deleted
        /\ update_commit(u, FALSE).code = 422
        /\ update_commit(u, FALSE).detail = "StaleDataError"
        /\ threads # {}
====
